---- MODULE Spec2Model ----
(***************************************************************************)
(* Century-Fox auto post bot (src/main.py): the scheduled post queue, the  *)
(* repeating dispatch job auto_post_loop, the /post, /queue, /voice_on and *)
(* /voice_off command handlers, and the Resemble job client generate_voice *)
(* driven by handle_message.                                               *)
(*                                                                         *)
(* Time is an integer count of clock units; a second is UnitsPerSecond     *)
(* units, which stands for the sub-second resolution of datetime.now().    *)
(* A stored "time" field is the "%Y-%m-%d %H:%M:%S" string, i.e. a whole   *)
(* number of seconds.  Message texts are sequences of tokens: "/post",     *)
(* " ", "|" and words.                                                     *)
(***************************************************************************)
EXTENDS Integers, Sequences, FiniteSets, TLC

VARIABLES
    clock,            \* datetime.now() / time.time(), in clock units
    nextTick,         \* next scheduled run of auto_post_loop (job queue)
    post_queue,       \* main.py:24, the list of scheduled post dicts
    user_voice_mode,  \* main.py:25, the dict user id -> True / False
    reply,            \* the reply sent by the step just taken, if any
    ticks,            \* the running invocations of auto_post_loop
    gv,               \* handle_message / generate_voice, when it runs
    nposts,           \* history: number of items appended so far
    tickNo,           \* history: number of ticks started so far
    lastNow,          \* history: the 'now' of the latest tick started
    calls,            \* history: the send_photo calls made
    failures,         \* history: number of failed external calls
    runs,             \* history: number of generate_voice calls
    smallSteps        \* history: number of sub-tick clock advances

vars == <<clock, nextTick, post_queue, user_voice_mode, reply, ticks, gv,
          nposts, tickNo, lastNow, calls, failures, runs, smallSteps>>

----------------------------------------------------------------------------
(* Bounds of the model *)

UnitsPerSecond == 2
MaxSeconds == 70
MaxPosts == 2
MaxPostSeconds == 10
MaxFail == 1
MaxSmallSteps == 1
MaxRuns == 1
MaxVoicePosts == 1

(* Constants of the program *)

SecondsPerMinute == 60
Interval == 10
First == 10
TimeoutSeconds == 30
PollInterval == 2
RequestTimeout == 10

TickUnits == Interval * UnitsPerSecond
TimeoutUnits == TimeoutSeconds * UnitsPerSecond
PollUnits == PollInterval * UnitsPerSecond
RequestUnits == RequestTimeout * UnitsPerSecond
MinuteUnits == SecondsPerMinute * UnitsPerSecond
MaxClock == MaxSeconds * UnitsPerSecond

Jobs == {1, 2}
Users == {1, 2}

----------------------------------------------------------------------------
(* Message texts *)

Titles == {"A"}
Messages == {"m"}
Links == {"l"}
MinuteStrs == {"0", "1", "-1", "x", ""}

\* int(s) of a stripped field: the words int() accepts, and their values
IntOf(w) ==
    CASE w = "0" -> 0
      [] w = "1" -> 1
      [] w = "-1" -> 0 - 1
      [] OTHER -> 0

IsIntWord(w) == w \in {"0", "1", "-1"}

Word(w) == IF w = "" THEN <<>> ELSE <<w>>

RECURSIVE Join(_, _)
Join(fs, sep) ==
    IF Len(fs) = 0 THEN <<>>
    ELSE IF Len(fs) = 1 THEN Word(fs[1])
    ELSE Word(fs[1]) \o sep \o Join(Tail(fs), sep)

FieldSeqs ==
    {<<"A", "m">>, <<"A", "m", "l">>, <<"A", "m", "1">>}
    \cup {<<t, m, l, n>> : t \in Titles, m \in Messages, l \in Links, n \in MinuteStrs}
    \cup {<<"A", m, l, n, "0">> : m \in Messages, l \in Links, n \in {"1", "x"}}

Texts ==
    {<<"/post">>, <<"/post", " ">> \o Join(<<"A", "m", "l", "1">>, <<" ", "|", " ">>)}
    \cup {<<"/post", " ">> \o Join(fs, <<"|">>) : fs \in FieldSeqs}

----------------------------------------------------------------------------
(* str.split, str.strip and int as post uses them *)

HasBar(text) == \E i \in 1..Len(text) : text[i] = "|"

\* the index of the first token tok in s, 0 when there is none
FirstIndex(s, tok) ==
    IF \E i \in 1..Len(s) : s[i] = tok
    THEN CHOOSE i \in 1..Len(s) : s[i] = tok /\ \A k \in 1..(i - 1) : s[k] # tok
    ELSE 0

\* s.split(tok, maxsplit)
RECURSIVE Split(_, _, _)
Split(s, tok, maxsplit) ==
    LET i == FirstIndex(s, tok) IN
    IF maxsplit = 0 \/ i = 0 THEN <<s>>
    ELSE <<SubSeq(s, 1, i - 1)>> \o Split(SubSeq(s, i + 1, Len(s)), tok, maxsplit - 1)

\* s.strip()
RECURSIVE Strip(_)
Strip(s) ==
    IF Len(s) = 0 THEN s
    ELSE IF s[1] = " " THEN Strip(Tail(s))
    ELSE IF s[Len(s)] = " " THEN Strip(SubSeq(s, 1, Len(s) - 1))
    ELSE s

\* int(s) raises ValueError unless s is one integer word
IsInt(s) == Len(s) = 1 /\ IsIntWord(s[1])

Invalid == [ok |-> FALSE]

\* the parse with payload.split("|") unbounded and the first four fields taken
ParsePostLoose(text) ==
    IF ~HasBar(text) THEN Invalid
    ELSE LET parts == Split(text, " ", 1) IN
         IF Len(parts) # 2 THEN Invalid
         ELSE LET raw == Split(parts[2], "|", Len(text))
                  fields == [i \in 1..Len(raw) |-> Strip(raw[i])]
              IN IF Len(fields) < 4 THEN Invalid
                 ELSE IF ~IsInt(fields[4]) THEN Invalid
                 ELSE [ok |-> TRUE, title |-> fields[1], message |-> fields[2],
                       link |-> fields[3], minutes |-> IntOf(fields[4][1])]

\* main.py:133-143, the parse of /post: Invalid where the handler replies
\* "Invalid format" and returns
ParsePost(text) ==
    IF ~HasBar(text) THEN Invalid
    ELSE LET parts == Split(text, " ", 1) IN
         IF Len(parts) # 2 THEN Invalid
         ELSE LET raw == Split(parts[2], "|", 3)
                  fields == [i \in 1..Len(raw) |-> Strip(raw[i])]
              IN IF Len(fields) # 4 THEN Invalid
                 ELSE IF ~IsInt(fields[4]) THEN Invalid
                 ELSE [ok |-> TRUE, title |-> fields[1], message |-> fields[2],
                       link |-> fields[3], minutes |-> IntOf(fields[4][1])]

\* the parse of each text, computed once
ParseTable == [text \in Texts |-> ParsePost(text)]

----------------------------------------------------------------------------
(* Times *)

\* schedule_time.strftime("%Y-%m-%d %H:%M:%S"): whole seconds, fraction dropped
strftime(t) == t \div UnitsPerSecond

\* datetime.strptime(s, "%Y-%m-%d %H:%M:%S")
strptime(s) == s * UnitsPerSecond

\* datetime.now() + timedelta(minutes=m)
ScheduleTime(now, m) == now + m * MinuteUnits

\* dueAt of an item: its insertion time plus its offset, at full resolution
Due(item) == ScheduleTime(item.t0, item.d)

----------------------------------------------------------------------------
(* The queue *)

\* dict equality: the fields of the dict; id, t0, d and born are history
\* fields that stand for the identity of the object and its insertion (the
\* time of the /post, its offset in minutes, the ticks started before it)
SameDict(a, b) ==
    /\ a.title = b.title
    /\ a.message = b.message
    /\ a.link = b.link
    /\ a.time = b.time

Contains(q, item) == \E i \in 1..Len(q) : SameDict(q[i], item)

\* a removal that drops the last element equal to item
RemoveLast(q, item) ==
    LET i == CHOOSE k \in 1..Len(q) :
                 SameDict(q[k], item) /\ \A h \in (k + 1)..Len(q) : ~SameDict(q[h], item)
    IN SubSeq(q, 1, i - 1) \o SubSeq(q, i + 1, Len(q))

\* a removal that drops every element equal to item
RemoveAll(q, item) == SelectSeq(q, LAMBDA x : ~SameDict(x, item))

\* list.remove(item): drops the first element equal to item
Remove(q, item) ==
    LET i == CHOOSE k \in 1..Len(q) :
                 SameDict(q[k], item) /\ \A h \in 1..(k - 1) : ~SameDict(q[h], item)
    IN SubSeq(q, 1, i - 1) \o SubSeq(q, i + 1, Len(q))

\* now >= post_time
IsDue(now, item) == now >= strptime(item.time)

\* the last index >= i of a due item of snap, Len(snap) + 1 when none
NextDueLast(snap, i, now) ==
    IF \E k \in i..Len(snap) : IsDue(now, snap[k])
    THEN CHOOSE k \in i..Len(snap) :
             IsDue(now, snap[k]) /\ \A h \in (k + 1)..Len(snap) : ~IsDue(now, snap[h])
    ELSE Len(snap) + 1

\* the first index >= i of a due item of snap, Len(snap) + 1 when none
NextDue(snap, i, now) ==
    IF \E k \in i..Len(snap) : IsDue(now, snap[k])
    THEN CHOOSE k \in i..Len(snap) :
             IsDue(now, snap[k]) /\ \A h \in i..(k - 1) : ~IsDue(now, snap[h])
    ELSE Len(snap) + 1

IdleTick(e) == [pc |-> "idle", now |-> 0, snap |-> <<>>, idx |-> 0, no |-> 0, err |-> e]

AllIdle == \A j \in Jobs : ticks[j].pc = "idle"

\* the event loop runs one coroutine at a time; generate_voice is a plain
\* function and holds the loop from its call to its return
LoopFree == gv.pc = "idle"

\* a step that sends no reply to the chat
NoReply == reply' = [kind |-> "none"]

----------------------------------------------------------------------------
Init ==
    /\ clock = 0
    /\ nextTick = First * UnitsPerSecond
    /\ post_queue = <<>>
    /\ user_voice_mode = <<>>
    /\ reply = [kind |-> "none"]
    /\ ticks = [j \in Jobs |-> IdleTick("none")]
    /\ gv = [pc |-> "idle"]
    /\ nposts = 0
    /\ tickNo = 0
    /\ lastNow = 0
    /\ calls = <<>>
    /\ failures = 0
    /\ runs = 0
    /\ smallSteps = 0

----------------------------------------------------------------------------
(* Command handlers *)

\* main.py:132-152
Post(text) ==
    /\ LoopFree
    /\ LET p == ParseTable[text] IN
       IF ~p.ok
       THEN /\ reply' = [kind |-> "invalid"]
            /\ UNCHANGED <<post_queue, nposts>>
       ELSE LET schedule_time == ScheduleTime(clock, p.minutes) IN
            /\ nposts < MaxPosts
            /\ clock <= MaxPostSeconds * UnitsPerSecond
            /\ post_queue' = Append(post_queue,
                   [id |-> nposts + 1, t0 |-> clock, d |-> p.minutes, born |-> tickNo,
                    title |-> p.title, message |-> p.message, link |-> p.link,
                    time |-> strftime(schedule_time)])
            /\ nposts' = nposts + 1
            /\ reply' = [kind |-> "scheduled"]
    /\ UNCHANGED <<clock, nextTick, user_voice_mode, ticks, gv, tickNo, lastNow,
                   calls, failures, runs, smallSteps>>

\* a listing that shows the newest item first
QueueReversed ==
    /\ LoopFree
    /\ reply' = IF post_queue = <<>>
                THEN [kind |-> "empty"]
                ELSE [kind |-> "queue",
                      lines |-> [i \in 1..Len(post_queue) |->
                                    LET item == post_queue[Len(post_queue) + 1 - i]
                                    IN <<i, item.title, item.time>>]]
    /\ UNCHANGED <<clock, nextTick, post_queue, user_voice_mode, ticks, gv, nposts,
                   tickNo, lastNow, calls, failures, runs, smallSteps>>

\* main.py:123-130
Queue ==
    /\ LoopFree
    /\ reply' = IF post_queue = <<>>
                THEN [kind |-> "empty"]
                ELSE [kind |-> "queue",
                      lines |-> [i \in 1..Len(post_queue) |->
                                    <<i, post_queue[i].title, post_queue[i].time>>]]
    /\ UNCHANGED <<clock, nextTick, post_queue, user_voice_mode, ticks, gv, nposts,
                   tickNo, lastNow, calls, failures, runs, smallSteps>>

----------------------------------------------------------------------------
(* auto_post_loop *)

\* the scheduled run time that follows the one taken at time now
NextRun(due, now) == due + ((now - due) \div TickUnits + 1) * TickUnits

\* the history record of a send_photo call made by tick n for item
Call(item, n, now) ==
    [id |-> item.id, no |-> n, now |-> now, due |-> Due(item), d |-> item.d,
     ok |-> "pending"]

\* main.py:159-169 from index i on: runs to the next await of send_photo, or
\* to the end of the loop
Scan(j, n, now, snap, i) ==
    LET k == NextDue(snap, i, now) IN
    IF k > Len(snap)
    THEN /\ ticks' = [ticks EXCEPT ![j] = IdleTick("none")]
         /\ calls' = calls
    ELSE /\ ticks' = [ticks EXCEPT ![j] =
                [pc |-> "send", now |-> now, snap |-> snap, idx |-> k, no |-> n,
                 err |-> "none"]]
         /\ calls' = Append(calls, Call(snap[k], n, now))

\* the outcome r of the send_photo call that tick n is suspended in
Mark(cs, n, r) ==
    [i \in 1..Len(cs) |->
        IF cs[i].no = n /\ cs[i].ok = "pending" THEN [cs[i] EXCEPT !.ok = r] ELSE cs[i]]

\* main.py:157-163, a run of the job up to its first await
TickStart(j) ==
    /\ LoopFree
    /\ clock >= nextTick
    /\ ticks[j].pc = "idle"
    /\ Scan(j, tickNo + 1, clock, post_queue, 1)
    /\ tickNo' = tickNo + 1
    /\ lastNow' = clock
    /\ nextTick' = NextRun(nextTick, clock)
    /\ UNCHANGED <<clock, post_queue, user_voice_mode, gv, nposts, failures, runs,
                   smallSteps>>
    /\ NoReply

\* main.py:163-170, send_photo returns: remove the item, go on with the loop
SendOk(j) ==
    /\ LoopFree
    /\ ticks[j].pc = "send"
    /\ LET t == ticks[j]
           item == t.snap[t.idx]
           marked == Mark(calls, t.no, "ok")
       IN IF Contains(post_queue, item)
          THEN /\ post_queue' = Remove(post_queue, item)
               /\ LET k == NextDue(t.snap, t.idx + 1, t.now) IN
                  IF k > Len(t.snap)
                  THEN /\ ticks' = [ticks EXCEPT ![j] = IdleTick("none")]
                       /\ calls' = marked
                  ELSE /\ ticks' = [ticks EXCEPT ![j].idx = k]
                       /\ calls' = Append(marked, Call(t.snap[k], t.no, t.now))
          ELSE \* list.remove raises ValueError, which ends the job
               /\ post_queue' = post_queue
               /\ ticks' = [ticks EXCEPT ![j] = IdleTick("ValueError")]
               /\ calls' = marked
    /\ UNCHANGED <<clock, nextTick, user_voice_mode, gv, nposts, tickNo,
                   lastNow, failures, runs, smallSteps>>
    /\ NoReply

\* a failed send_photo that drops its item from the queue
SendFailDrop(j) ==
    /\ LoopFree
    /\ ticks[j].pc = "send"
    /\ failures < MaxFail
    /\ failures' = failures + 1
    /\ ticks' = [ticks EXCEPT ![j] = IdleTick("PublishFailed")]
    /\ calls' = Mark(calls, ticks[j].no, "fail")
    /\ post_queue' = IF Contains(post_queue, ticks[j].snap[ticks[j].idx])
                     THEN Remove(post_queue, ticks[j].snap[ticks[j].idx])
                     ELSE post_queue
    /\ UNCHANGED <<clock, nextTick, user_voice_mode, gv, nposts,
                   tickNo, lastNow, runs, smallSteps>>
    /\ NoReply

\* main.py:163, send_photo raises: the exception ends the job
SendFail(j) ==
    /\ LoopFree
    /\ ticks[j].pc = "send"
    /\ failures < MaxFail
    /\ failures' = failures + 1
    /\ ticks' = [ticks EXCEPT ![j] = IdleTick("PublishFailed")]
    /\ calls' = Mark(calls, ticks[j].no, "fail")
    /\ UNCHANGED <<clock, nextTick, post_queue, user_voice_mode, gv, nposts,
                   tickNo, lastNow, runs, smallSteps>>
    /\ NoReply

----------------------------------------------------------------------------
(* The clock *)

\* time passes: by one clock unit (a bounded number of times),
\* or up to the next scheduled run of the job
Advance ==
    /\ LoopFree
    /\ clock < nextTick
    /\ AllIdle \/ clock + 1 < nextTick
    /\ \/ /\ smallSteps < MaxSmallSteps
          /\ smallSteps' = smallSteps + 1
          /\ clock' = clock + 1
       \/ /\ AllIdle
          /\ clock' = nextTick
          /\ smallSteps' = smallSteps
    /\ clock' <= MaxClock
    /\ UNCHANGED <<nextTick, post_queue, user_voice_mode, ticks, gv, nposts,
                   tickNo, lastNow, calls, failures, runs>>
    /\ NoReply

----------------------------------------------------------------------------
(* The mode registry *)

\* user_voice_mode.get(u, False)
GetMode(u) == IF u \in DOMAIN user_voice_mode THEN user_voice_mode[u] ELSE FALSE

\* an assignment that sets the flag of every user
SetModeAll(u, b) == [v \in Users |-> b]

\* user_voice_mode[u] = b
SetMode(u, b) ==
    [v \in DOMAIN user_voice_mode \cup {u} |-> IF v = u THEN b ELSE user_voice_mode[v]]

\* main.py:115-117
VoiceOn(u) ==
    /\ LoopFree
    /\ user_voice_mode' = SetMode(u, TRUE)
    /\ reply' = [kind |-> "voice_on"]
    /\ UNCHANGED <<clock, nextTick, post_queue, ticks, gv, nposts, tickNo, lastNow,
                   calls, failures, runs, smallSteps>>

\* main.py:119-121
VoiceOff(u) ==
    /\ LoopFree
    /\ user_voice_mode' = SetMode(u, FALSE)
    /\ reply' = [kind |-> "voice_off"]
    /\ UNCHANGED <<clock, nextTick, post_queue, ticks, gv, nposts, tickNo, lastNow,
                   calls, failures, runs, smallSteps>>

----------------------------------------------------------------------------
(* handle_message and generate_voice *)

\* what a finished generate_voice leaves: the voice reply, or the exception
Outcome(k, e) ==
    [kind |-> k, err |-> e, polls |-> gv.polls, elapsed |-> clock - gv.start,
     last |-> clock - gv.since]

\* the timeout compared one poll interval late
TimedOutLate(now, start) == now - start > TimeoutUnits + PollUnits

\* the timeout compared with the poll interval instead of timeout_seconds
TimedOutEarly(now, start) == now - start > PollUnits

\* time.time() - start > timeout_seconds
TimedOut(now, start) == now - start > TimeoutUnits

\* main.py:175-189: in voice mode the handler calls generate_voice, which
\* issues requests.post (main.py:84); otherwise it replies with the chat text
HandleMessage(u) ==
    /\ LoopFree
    /\ clock <= MaxPostSeconds * UnitsPerSecond
    /\ IF GetMode(u)
       THEN /\ runs < MaxRuns
            /\ runs' = runs + 1
            /\ gv' = [pc |-> "submit", start |-> clock, since |-> clock, polls |-> 0]
            /\ NoReply
       ELSE /\ runs' = runs
            /\ gv' = gv
            /\ reply' = [kind |-> "text"]
    /\ UNCHANGED <<clock, nextTick, post_queue, user_voice_mode, ticks, nposts,
                   tickNo, lastNow, calls, failures, smallSteps>>

\* main.py:84-90, the submission returns a clip id: start the clock and
\* issue the first status query
SubmitOk ==
    /\ gv.pc = "submit"
    /\ clock - gv.since < RequestUnits
    /\ gv' = [pc |-> "get", start |-> clock, since |-> clock, polls |-> 0]
    /\ NoReply
    /\ UNCHANGED <<clock, nextTick, post_queue, user_voice_mode, ticks, nposts,
                   tickNo, lastNow, calls, failures, runs, smallSteps>>

\* main.py:84-85, requests.post or raise_for_status raises
SubmitFail ==
    /\ gv.pc = "submit"
    /\ failures < MaxFail
    /\ failures' = failures + 1
    /\ reply' = [Outcome("raised", "SubmissionFailed") EXCEPT !.elapsed = 0]
    /\ gv' = [pc |-> "idle"]
    /\ UNCHANGED <<clock, nextTick, post_queue, user_voice_mode, ticks, nposts,
                   tickNo, lastNow, calls, runs, smallSteps>>

\* a status query whose elapsed time is tested before its status
StatusTimeoutFirst(st) ==
    /\ gv.pc = "get"
    /\ clock - gv.since < RequestUnits
    /\ LET polled == [gv EXCEPT !.polls = gv.polls + 1] IN
       IF TimedOut(clock, gv.start)
       THEN /\ reply' = [Outcome("raised", "TimeoutError") EXCEPT !.polls = polled.polls]
            /\ gv' = [pc |-> "idle"]
       ELSE IF st = "done"
       THEN /\ reply' = [Outcome("voice", "none") EXCEPT !.polls = polled.polls]
            /\ gv' = [pc |-> "idle"]
       ELSE /\ NoReply
            /\ gv' = [polled EXCEPT !.pc = "sleep", !.since = clock]
    /\ UNCHANGED <<clock, nextTick, post_queue, user_voice_mode, ticks, nposts,
                   tickNo, lastNow, calls, failures, runs, smallSteps>>

\* a failed status query that is issued again after the poll sleep
StatusFailRetry ==
    /\ gv.pc = "get"
    /\ failures < MaxFail
    /\ failures' = failures + 1
    /\ NoReply
    /\ gv' = [gv EXCEPT !.pc = "sleep", !.since = clock, !.polls = gv.polls + 1]
    /\ UNCHANGED <<clock, nextTick, post_queue, user_voice_mode, ticks, nposts,
                   tickNo, lastNow, calls, runs, smallSteps>>

\* main.py:90-99, a status query returns status st
Status(st) ==
    /\ gv.pc = "get"
    /\ clock - gv.since < RequestUnits
    /\ LET polled == [gv EXCEPT !.polls = gv.polls + 1] IN
       IF st = "done"
       THEN /\ reply' = [Outcome("voice", "none") EXCEPT !.polls = polled.polls]
            /\ gv' = [pc |-> "idle"]
       ELSE IF TimedOut(clock, gv.start)
       THEN /\ reply' = [Outcome("raised", "TimeoutError") EXCEPT !.polls = polled.polls]
            /\ gv' = [pc |-> "idle"]
       ELSE /\ NoReply
            /\ gv' = [polled EXCEPT !.pc = "sleep", !.since = clock]
    /\ UNCHANGED <<clock, nextTick, post_queue, user_voice_mode, ticks, nposts,
                   tickNo, lastNow, calls, failures, runs, smallSteps>>

\* main.py:90-91, requests.get or raise_for_status raises
StatusFail ==
    /\ gv.pc = "get"
    /\ failures < MaxFail
    /\ failures' = failures + 1
    /\ reply' = [Outcome("raised", "PollFailed") EXCEPT !.polls = gv.polls + 1]
    /\ gv' = [pc |-> "idle"]
    /\ UNCHANGED <<clock, nextTick, post_queue, user_voice_mode, ticks, nposts,
                   tickNo, lastNow, calls, runs, smallSteps>>

\* main.py:99 and 90, time.sleep(2) returns and the next query is issued
Wake ==
    /\ gv.pc = "sleep"
    /\ clock = gv.since + PollUnits
    /\ gv' = [gv EXCEPT !.pc = "get", !.since = clock]
    /\ NoReply
    /\ UNCHANGED <<clock, nextTick, post_queue, user_voice_mode, ticks, nposts,
                   tickNo, lastNow, calls, failures, runs, smallSteps>>

\* time passes while generate_voice holds the thread: in time.sleep to the
\* end of the sleep, in a request by one clock unit (a bounded number of
\* times) or to the last unit before the request's own timeout
Block ==
    /\ gv.pc # "idle"
    /\ IF gv.pc = "sleep"
       THEN /\ clock < gv.since + PollUnits
            /\ clock' = gv.since + PollUnits
            /\ smallSteps' = smallSteps
       ELSE \/ /\ smallSteps < MaxSmallSteps
               /\ clock - gv.since < RequestUnits
               /\ smallSteps' = smallSteps + 1
               /\ clock' = clock + 1
            \/ /\ clock < gv.since + RequestUnits - 1
               /\ clock' = gv.since + RequestUnits - 1
               /\ smallSteps' = smallSteps
    /\ clock' <= MaxClock
    /\ NoReply
    /\ UNCHANGED <<nextTick, post_queue, user_voice_mode, ticks, gv, nposts,
                   tickNo, lastNow, calls, failures, runs>>

----------------------------------------------------------------------------
\* main.py:204, run_repeating: a run starts when none is running
Tick == AllIdle /\ TickStart(1)

Next ==
    \/ \E text \in Texts : Post(text)
    \/ Queue
    \/ Tick
    \/ \E j \in Jobs : SendOk(j)
    \/ \E j \in Jobs : SendFail(j)
    \/ Advance

Spec == Init /\ [][Next]_vars

\* the job queue with runs allowed to overlap: a run that comes due while
\* another is suspended in send_photo starts beside it
Overlap ==
    /\ LoopFree
    /\ ticks[1].pc # "idle"
    /\ ticks[2].pc = "idle"
    /\ clock < nextTick
    /\ clock' = nextTick
    /\ clock' <= MaxClock
    /\ NoReply
    /\ UNCHANGED <<nextTick, post_queue, user_voice_mode, ticks, gv, nposts, tickNo,
                   lastNow, calls, failures, runs, smallSteps>>

OverlapTick == ticks[1].pc # "idle" /\ ticks[2].pc = "idle" /\ TickStart(2)

NextOverlap ==
    \/ \E text \in Texts : Post(text)
    \/ Queue
    \/ Tick
    \/ \E j \in Jobs : SendOk(j)
    \/ \E j \in Jobs : SendFail(j)
    \/ Advance
    \/ Overlap
    \/ OverlapTick

SpecOverlap == Init /\ [][NextOverlap]_vars

\* the whole bot: the commands, the job and the message handler
VoiceTexts == {<<"/post", " ", "A", "|", "m", "|", "l", "|", "0">>,
               <<"/post", " ", "A", "|", "m", "|", "l">>}

\* a /post that arrives before the voice message
PostFirst(text) == nposts < MaxVoicePosts /\ runs = 0 /\ Post(text)

NextVoice ==
    \/ VoiceOn(1)
    \/ VoiceOff(1)
    \/ HandleMessage(1)
    \/ SubmitOk
    \/ SubmitFail
    \/ \E st \in {"pending", "done"} : Status(st)
    \/ StatusFail
    \/ Wake
    \/ Block
    \/ \E text \in VoiceTexts : PostFirst(text)
    \/ Queue
    \/ Tick
    \/ \E j \in Jobs : SendOk(j)
    \/ Advance

SpecVoice == Init /\ [][NextVoice]_vars

\* the bot with the commands and messages of every user, when the first
\* status query of a voice job reports done
NextMode ==
    \/ \E u \in Users : VoiceOn(u)
    \/ \E u \in Users : VoiceOff(u)
    \/ \E u \in Users : HandleMessage(u)
    \/ SubmitOk
    \/ SubmitFail
    \/ Status("done")
    \/ Block
    \/ \E text \in VoiceTexts : PostFirst(text)
    \/ Queue
    \/ Tick
    \/ \E j \in Jobs : SendOk(j)
    \/ Advance

SpecMode == Init /\ [][NextMode]_vars

\* the bot when every send_photo call returns, time passes and the job
\* queue keeps starting the job at its interval
NextLive ==
    \/ \E text \in Texts : Post(text)
    \/ Queue
    \/ Tick
    \/ \E j \in Jobs : SendOk(j)
    \/ Advance

SpecLive ==
    /\ Init
    /\ [][NextLive]_vars
    /\ WF_vars(Advance)
    /\ WF_vars(Tick)
    /\ WF_vars(\E j \in Jobs : SendOk(j))

----------------------------------------------------------------------------
(* Properties *)

QueueIds == {post_queue[i].id : i \in 1..Len(post_queue)}

CallsOf(id) == {i \in 1..Len(calls) : calls[i].id = id}

\* C1: over any run of /post inserts and non-overlapping ticks, with
\* send_photo free to succeed or fail, send_photo is called at most once
\* for each scheduled item.
C1_AtMostOneDispatch ==
    \A id \in 1..nposts : Cardinality(CallsOf(id)) <= 1

\* C2: no item is selected as due by two different ticks, also when a tick
\* starts while another is suspended in its send_photo call (stated for the
\* runs in which no external call fails, where only the overlap is in play).
C2_SelectedByOneTick ==
    failures = 0 =>
        \A i, k \in 1..Len(calls) :
            calls[i].id = calls[k].id => calls[i].no = calls[k].no

\* C3: no tick whose 'now' is earlier than the insertion time plus the
\* offset publishes the item.
C3_NeverBeforeDueAt ==
    \A i \in 1..Len(calls) : calls[i].now >= calls[i].due

\* C4: an item inserted with offset d >= 0 is selected by the first tick
\* whose 'now' is at or after its dueAt, whatever happens to the other
\* items, and by no other tick: it is not called earlier, it is not called
\* by two ticks, and once a tick with 'now' >= dueAt that started after the
\* insertion has ended the item has left the queue.
C4_SelectedAtFirstDueTick ==
    /\ \A i \in 1..Len(calls) :
          calls[i].d >= 0 =>
              /\ calls[i].now >= calls[i].due
              /\ \A k \in 1..Len(calls) :
                    calls[k].id = calls[i].id => calls[k].no = calls[i].no
    /\ \A i \in 1..Len(post_queue) :
          LET item == post_queue[i] IN
          (item.d >= 0 /\ AllIdle /\ item.born < tickNo) => lastNow < Due(item)

\* C5: when send_photo fails for one due item of a tick, every other item
\* that was due at the start of that tick is still attempted in that tick.
C5_PartialFailureIsolation ==
    (AllIdle /\ ticks[1].err = "PublishFailed") =>
        \A i \in 1..Len(post_queue) :
            LET item == post_queue[i] IN
            (item.born < tickNo /\ IsDue(lastNow, item)) =>
                \E k \in 1..Len(calls) : calls[k].no = tickNo /\ calls[k].id = item.id

\* C6: an item whose send_photo call failed is no longer in the queue when
\* the tick ends, and no later call is made for it.
C6_FailedItemDropped ==
    \A i \in 1..Len(calls) :
        calls[i].ok = "fail" =>
            /\ calls[i].id \notin QueueIds
            /\ \A k \in (i + 1)..Len(calls) : calls[k].id # calls[i].id

\* the fields of a /post text as its author wrote them: the words between
\* the bars of the payload
Bars(text) == {i \in 1..Len(text) : text[i] = "|"}

FieldCount(text) == Cardinality(Bars(text)) + 1

\* the words after the last bar, spaces apart
LastField(text) ==
    LET last == CHOOSE i \in Bars(text) : \A k \in Bars(text) : k <= i
    IN SelectSeq(SubSeq(text, last + 1, Len(text)), LAMBDA w : w # " ")

IntegerField(f) == f \in {<<"0">>, <<"1">>, <<"-1">>}

WellFormed(text) ==
    /\ Bars(text) # {}
    /\ FieldCount(text) = 4
    /\ IntegerField(LastField(text))

Negative(text) == Bars(text) # {} /\ LastField(text) = <<"-1">>

\* the texts of each kind, computed once
WellFormedTexts == {text \in Texts : WellFormed(text)}

NegativeTexts == {text \in Texts : Negative(text)}

\* the minutes a well-formed text asks for
MinutesOf(text) == IntOf(LastField(text)[1])

Replied == reply'.kind \in {"invalid", "scheduled"}

\* C7: a /post whose minutes field is a negative integer replies with the
\* format error and leaves the queue as it was.
C7_NegativeOffsetRejected ==
    [][Replied =>
          \A text \in NegativeTexts :
              Post(text) => (reply'.kind = "invalid" /\ post_queue' = post_queue)]_vars

\* C8: a /post with exactly 4 fields and integer minutes m appends exactly
\* one item, due m minutes after the call (at the resolution of the stored
\* time); every other /post replies with the format error and leaves the
\* queue as it was.
C8_PostFormat ==
    [][Replied =>
          \A text \in Texts :
              \/ IF text \in WellFormedTexts
                 THEN /\ reply'.kind = "scheduled"
                      /\ Len(post_queue') = Len(post_queue) + 1
                      /\ SubSeq(post_queue', 1, Len(post_queue)) = post_queue
                      /\ LET item == post_queue'[Len(post_queue')]
                             dueAt == clock + MinutesOf(text) * MinuteUnits
                         IN /\ strptime(item.time) <= dueAt
                            /\ dueAt < strptime(item.time + 1)
                 ELSE /\ reply'.kind = "invalid"
                      /\ post_queue' = post_queue
              \/ ~Post(text)]_vars

\* a malformed /post has just been refused with items in the queue, one of
\* them scheduled a minute ahead
C8_Witness ==
    /\ reply.kind = "invalid"
    /\ \E i \in 1..Len(post_queue) :
          post_queue[i].time = strftime(post_queue[i].t0 + MinuteUnits)

Waiting == gv.pc \in {"get", "sleep"}

\* C9: whenever generate_voice is waiting (in a status query or in its
\* poll sleep), the commands can run and a tick that has come due can start.
C9_WaitDoesNotBlock ==
    Waiting =>
        /\ ENABLED Queue
        /\ ENABLED VoiceOn(1)
        /\ ENABLED VoiceOff(1)
        /\ ENABLED Post(<<"/post">>)
        /\ (clock >= nextTick /\ AllIdle) => ENABLED TickStart(1)

\* C10 as stated: the timeout error is raised no later than timeout +
\* pollInterval after the first poll.
C10_TimeoutWithinBound ==
    (reply.kind = "raised" /\ reply.err = "TimeoutError") =>
        reply.elapsed <= TimeoutUnits + PollUnits

\* C10 as amended: the timeout error is raised only after more than
\* timeout has elapsed, no later than timeout + pollInterval plus the time
\* the last status query took, and after at most timeout / pollInterval + 2
\* status queries.
C10_TimeoutBound ==
    /\ (reply.kind = "raised" /\ reply.err = "TimeoutError") =>
          /\ reply.elapsed > TimeoutUnits
          /\ reply.elapsed - reply.last <= TimeoutUnits + PollUnits
    /\ Waiting => gv.polls < TimeoutSeconds \div PollInterval + 2
    /\ reply.kind \in {"raised", "voice"} =>
          reply.polls <= TimeoutSeconds \div PollInterval + 2

\* the timeout error has just been raised after a status query that took
\* time, later than timeout + pollInterval after the first poll
C10_Witness ==
    /\ reply.kind = "raised"
    /\ reply.err = "TimeoutError"
    /\ reply.last > 0
    /\ reply.elapsed > TimeoutUnits + PollUnits

Statuses == {"pending", "done"}

\* C11: generate_voice returns at the first status query that reports done
\* and issues none after it: a query that reports pending within the
\* timeout is followed by the poll sleep, the k-th query, reporting done
\* after k - 1 pending ones, returns the voice with exactly k queries made,
\* each of the k - 1 waits having lasted the poll interval.
C11_ReturnsAtFirstDone ==
    [][\A st \in Statuses :
          Status(st) =>
              IF st = "done"
              THEN /\ reply'.kind = "voice"
                   /\ reply'.polls = gv.polls + 1
                   /\ reply'.elapsed >= gv.polls * PollUnits
                   /\ gv'.pc = "idle"
              ELSE (clock - gv.start <= TimeoutUnits) =>
                       /\ reply'.kind = "none"
                       /\ gv'.pc = "sleep"
                       /\ gv'.polls = gv.polls + 1]_vars

\* the voice has just been returned by the fourth status query
C11_Witness ==
    /\ reply.kind = "voice"
    /\ reply.polls = 4
    /\ gv.pc = "idle"

\* C12: a failed external call ends generate_voice at once: a failed
\* submission raises with no status query made, a failed status query
\* raises, and in both cases no request is in progress or scheduled after it.
C12_NoRetry ==
    [][(failures' = failures + 1 /\ gv.pc \in {"submit", "get"}) =>
          /\ gv'.pc = "idle"
          /\ reply'.kind = "raised"
          /\ IF gv.pc = "submit"
             THEN reply'.err = "SubmissionFailed" /\ reply'.polls = 0
             ELSE reply'.err = "PollFailed" /\ reply'.polls = gv.polls + 1]_vars

\* a status query has just failed after an earlier one reported pending
C12_Witness ==
    /\ reply.kind = "raised"
    /\ reply.err = "PollFailed"
    /\ reply.polls >= 2
    /\ gv.pc = "idle"

\* C20: a status query that reports done returns the voice whatever time
\* has elapsed since the first poll; the timeout error is raised only by a
\* query that did not report done.
C20_DoneBeforeTimeout ==
    [][\A st \in Statuses :
          Status(st) =>
              /\ (st = "done") => reply'.kind = "voice"
              /\ (reply'.kind = "raised") =>
                     (st # "done" /\ reply'.err = "TimeoutError"
                      /\ TimedOut(clock, gv.start))]_vars

\* the voice has just been returned by a query that ended after the timeout
C20_Witness ==
    /\ reply.kind = "voice"
    /\ reply.elapsed > TimeoutUnits

\* the items of the queue are in the order of their insertion
InsertionOrder(q) == \A i, k \in 1..Len(q) : i < k => q[i].id < q[k].id

\* C13: /queue changes nothing but the reply it sends (the queue, the
\* clock, the job and its schedule are as before, so the next tick selects
\* what it would have selected), and its reply lists the queued items in
\* the order of their insertion.
C13_QueueReadOnly ==
    [][(reply'.kind \in {"empty", "queue"}) =>
          /\ UNCHANGED <<clock, nextTick, post_queue, user_voice_mode, ticks, gv,
                         nposts, tickNo, lastNow, calls, failures, runs, smallSteps>>
          /\ InsertionOrder(post_queue)
          /\ IF post_queue = <<>>
             THEN reply'.kind = "empty"
             ELSE /\ reply'.kind = "queue"
                  /\ Len(reply'.lines) = Len(post_queue)
                  /\ \A i \in 1..Len(post_queue) :
                        reply'.lines[i] = <<i, post_queue[i].title, post_queue[i].time>>]_vars

\* /queue has just listed two items of which the first inserted is due
\* later than the second, between two ticks
C13_Witness ==
    /\ reply.kind = "queue"
    /\ Len(reply.lines) = 2
    /\ reply.lines[1][3] > reply.lines[2][3]
    /\ tickNo >= 1
    /\ post_queue[1].id < post_queue[2].id

\* C14: the send_photo calls of one tick are made in the order the items
\* were inserted, and a tick that is publishing an item has already
\* published every due item inserted before it.
C14_PublishInInsertionOrder ==
    /\ \A i, k \in 1..Len(calls) :
          (i < k /\ calls[i].no = calls[k].no) => calls[i].id < calls[k].id
    /\ \A j \in Jobs :
          ticks[j].pc = "send" =>
              \A h \in 1..(ticks[j].idx - 1) :
                  IsDue(ticks[j].now, ticks[j].snap[h]) =>
                      \E c \in 1..Len(calls) :
                          /\ calls[c].no = ticks[j].no
                          /\ calls[c].id = ticks[j].snap[h].id
                          /\ calls[c].ok = "ok"

\* one tick has published two items, the first inserted being due later
\* than the second
C14_Witness ==
    \E i, k \in 1..Len(calls) :
        /\ i < k
        /\ calls[i].no = calls[k].no
        /\ calls[i].id < calls[k].id
        /\ calls[i].due > calls[k].due
        /\ calls[k].ok = "ok"

\* the items of q inserted after tick n started
InsertedSince(q, n) == SelectSeq(q, LAMBDA item : item.born >= n)

\* C16: a tick publishes only items that were in the queue when it
\* started, and none of its steps removes or reorders an item inserted
\* after it started: such an item is still in the queue when the tick ends.
C16_SnapshotIsolation ==
    [][\A j \in Jobs :
          /\ ticks'[j].pc = "send" => ticks'[j].snap[ticks'[j].idx].born < ticks'[j].no
          /\ (ticks[j].pc = "send" /\ ticks'[j] # ticks[j]) =>
                 InsertedSince(post_queue', ticks[j].no)
                     = InsertedSince(post_queue, ticks[j].no)]_vars

\* a tick is suspended in send_photo and a /post has inserted an item equal
\* to the one being published, already due
C16_Witness ==
    /\ ticks[1].pc = "send"
    /\ \E i \in 1..Len(post_queue) :
          /\ post_queue[i].born = ticks[1].no
          /\ IsDue(ticks[1].now, post_queue[i])
          /\ SameDict(post_queue[i], ticks[1].snap[ticks[1].idx])

\* send_photo has returned for item id
Published(id) == \E c \in 1..Len(calls) : calls[c].id = id /\ calls[c].ok = "ok"

\* C17: every inserted item is in the queue or has been published by a
\* send_photo call that returned, and an item leaves the queue only in the
\* step in which its own send_photo call returns.
C17_NoLossWithoutDelivery ==
    [][/\ \A id \in 1..nposts' : id \in QueueIds' \/ Published(id)'
       /\ \A id \in QueueIds \ QueueIds' :
             \E c \in 1..Len(calls) :
                 /\ calls[c].id = id
                 /\ calls[c].ok = "pending"
                 /\ calls'[c].ok = "ok"]_vars

\* one item has been published and removed, the other is still queued
\* after its send_photo call failed
C17_Witness ==
    /\ AllIdle
    /\ \E c \in 1..Len(calls) : calls[c].ok = "fail" /\ calls[c].id \in QueueIds
    /\ \E c \in 1..Len(calls) : calls[c].ok = "ok" /\ calls[c].id \notin QueueIds

\* C19: with runs of the job that do not overlap, post_queue.remove never
\* raises: the item a tick is publishing is in the queue until the tick
\* removes it, also when the queue holds equal items.
C19_RemoveNeverRaises ==
    \A j \in Jobs :
        /\ ticks[j].err # "ValueError"
        /\ ticks[j].pc = "send" =>
               Contains(post_queue, ticks[j].snap[ticks[j].idx])

\* a tick has removed the first of two equal items and is publishing the
\* second
C19_Witness ==
    /\ ticks[1].pc = "send"
    /\ ticks[1].idx = 2
    /\ SameDict(ticks[1].snap[1], ticks[1].snap[2])
    /\ Len(post_queue) = 1

\* C15: /voice_on and /voice_off by user u set getMode(u) to the value of
\* the command and leave the flag of every other user and the queue as they
\* were; no other step changes the registry, in which every flag starts
\* unset and an unset flag reads false; handle_message takes the voice
\* branch exactly when getMode of its user is true.
C15_ModeRegistry ==
    [][/\ \A u \in Users :
             /\ VoiceOn(u) => GetMode(u)'
             /\ VoiceOff(u) => ~GetMode(u)'
             /\ (VoiceOn(u) \/ VoiceOff(u)) =>
                    /\ \A v \in Users \ {u} : GetMode(v)' = GetMode(v)
                    /\ DOMAIN user_voice_mode' = DOMAIN user_voice_mode \cup {u}
                    /\ UNCHANGED <<post_queue, ticks, nextTick, calls>>
             /\ HandleMessage(u) => ((gv'.pc = "submit") = GetMode(u))
             /\ (u \notin DOMAIN user_voice_mode) => ~GetMode(u)
       /\ (reply'.kind \notin {"voice_on", "voice_off"}) =>
              user_voice_mode' = user_voice_mode]_vars

\* user 2 has just switched voice mode off, user 1 has it on, and an item
\* is queued
C15_Witness ==
    /\ reply.kind = "voice_off"
    /\ DOMAIN user_voice_mode = Users
    /\ user_voice_mode[1]
    /\ ~user_voice_mode[2]
    /\ Len(post_queue) = 1

\* every queued item is eventually published by a send_photo call that
\* returns, and removed
EventuallyPublished ==
    \A id \in 1..MaxPosts :
        (id \in QueueIds) ~> (id \notin QueueIds /\ Published(id))

\* every send_photo call is made by a tick whose 'now' is at or after the
\* due time of the item, insertion time plus offset, and less than one job
\* interval after it
AtFirstDueTick ==
    \A c \in 1..Len(calls) :
        /\ calls[c].now >= calls[c].due
        /\ calls[c].now - calls[c].due < TickUnits

\* C18: when every send_photo call returns and the job keeps running every
\* 10 seconds from 10 seconds after the start, every inserted item is
\* eventually published and removed, by the first tick at or after its due
\* time, less than one job interval after it becomes due.
C18_PublishedAtFirstDueTick ==
    /\ EventuallyPublished
    /\ []AtFirstDueTick

\* what the program does keep of it: every send_photo call is made by a
\* tick whose 'now' is at or after the stored time of the item; a tick that
\* started after the insertion of an item leaves it in the queue only if
\* its 'now' was before the stored time; and an item with an offset >= 0
\* is published at most one job interval after its due time (a whole
\* interval when it is inserted at the very time of a run of the job)
AtFirstTickAfterStoredTime ==
    /\ \A c \in 1..Len(calls) :
          /\ calls[c].now >= strptime(strftime(calls[c].due))
          /\ calls[c].d >= 0 => calls[c].now - calls[c].due <= TickUnits
    /\ \A i \in 1..Len(post_queue) :
          (AllIdle /\ post_queue[i].born < tickNo) => ~IsDue(lastNow, post_queue[i])

PublishedAtFirstTickAfterStoredTime ==
    /\ EventuallyPublished
    /\ []AtFirstTickAfterStoredTime

====
